---- MODULE Spec2Model ----
(***************************************************************************)
(* Model of note/utils/lyric_tokenizer.py: text cleaning (_clean_text),    *)
(* whitespace chunking (_iter_space_chunks) and the chunked tokenization   *)
(* pipeline (base_tokenize).                                               *)
(*                                                                         *)
(* A Python str is modelled as a sequence of one-character strings.        *)
(***************************************************************************)
EXTENDS Integers, Sequences, FiniteSets, TLC

\* ------------------------------------------------------------------ bounds
\* longest text handed to _iter_space_chunks
MaxLen == 6
\* largest hard_max_chars tried
MaxHard == 3
\* largest max_chars tried (above MaxHard, so that max_chars > hard_max_chars occurs)
MaxSoft == 4
\* longest text handed to base_tokenize
MaxTokLen == 3
\* largest chunk limit (soft and hard) handed to base_tokenize
MaxTokLimit == 2
\* most morphemes the analyzer returns during one call of base_tokenize
MaxMorphemes == 2
\* longest text handed to _clean_text
MaxCleanLen == 3

\* a generator that never finishes is cut off after this many yields
MaxChunks == MaxLen + 1

\* ------------------------------------------------------------- characters
WS == {" ", "\n"}
Letters == {"a", "b"}
Alphabet == Letters \cup WS

Texts(A, n) == UNION {[1..k -> A] : k \in 0..n}

IsWs(c) == c \in WS

Min(a, b) == IF a < b THEN a ELSE b
Max(a, b) == IF a > b THEN a ELSE b

\* ------------------------------------------------------------------ state
VARIABLES
    caller,          \* who iterates the generator: "direct" or "base_tokenize"
    text,            \* _iter_space_chunks: the text argument
    max_chars,       \* the max_chars argument
    hard_max_chars,  \* the hard_max_chars argument
    parts,           \* the split words
    idx,             \* position of "for p in parts" (next word to take)
    buf,             \* the word buffer
    cur_len,         \* its tracked joined length
    pc,              \* where the generator stands
    chunks,          \* every chunk yielded so far, in emission order
    how,             \* which yield statement produced each chunk
    raw,             \* base_tokenize: the text argument
    keep,            \* _keep_pos
    ngw,             \* _ng_words
    toks,            \* the token list, each token with the chunk and the
                     \* morpheme position it came from
    tpc,             \* where base_tokenize stands
    consumed,        \* how many chunks the for loop has finished with
    mcount,          \* morphemes handled so far, over all chunks
    failed,          \* indexes of the chunks whose analysis raised
    expect,          \* the current chunk's morphemes that pass the filter
    expectAll,       \* the same for every chunk that finished without raising
    x,               \* _clean_text: the text argument
    once,            \* _clean_text(x)
    twice,           \* _clean_text(_clean_text(x))
    cpc              \* how often _clean_text was applied

limitVars == <<max_chars, hard_max_chars>>
genVars == <<text, parts, idx, buf, cur_len, pc, chunks, how>>
argVars == <<caller, raw>>
tokVars == <<keep, ngw, toks, tpc, consumed, mcount, failed, expect, expectAll>>
cleanVars == <<x, once, twice, cpc>>

vars == <<limitVars, genVars, argVars, tokVars, cleanVars>>

\* ------------------------------------------------------ Python primitives
\* a slice that stops one character early
SliceToShort(s, h) == SubSeq(s, 1, Min(Max(h, 1), Len(s)) - 1)

\* s[:h] for any integer h (a negative h counts from the end)
SliceTo(s, h) ==
    LET e == IF h >= 0 THEN Min(h, Len(s)) ELSE Max(0, Len(s) + h)
    IN SubSeq(s, 1, e)

\* s[h:] for any integer h
SliceFrom(s, h) ==
    LET b == IF h >= 0 THEN Min(h, Len(s)) ELSE Max(0, Len(s) + h)
    IN SubSeq(s, b + 1, Len(s))

\* str.strip()
RECURSIVE LStrip(_)
LStrip(s) == IF s # <<>> /\ IsWs(Head(s)) THEN LStrip(Tail(s)) ELSE s

RECURSIVE RStrip(_)
RStrip(s) ==
    IF s # <<>> /\ IsWs(s[Len(s)]) THEN RStrip(SubSeq(s, 1, Len(s) - 1)) ELSE s

Strip(s) == RStrip(LStrip(s))

\* _SPACE_SPLIT.split(s): re.split(r"\s+", s); the pieces between whitespace
\* runs, an empty piece at either end when s starts or ends with whitespace
RECURSIVE SplitRec(_, _, _, _)
SplitRec(s, cur, acc, inRun) ==
    IF s = <<>> THEN Append(acc, cur)
    ELSE IF IsWs(Head(s))
         THEN IF inRun THEN SplitRec(Tail(s), cur, acc, TRUE)
              ELSE SplitRec(Tail(s), <<>>, Append(acc, cur), TRUE)
         ELSE SplitRec(Tail(s), Append(cur, Head(s)), acc, FALSE)

SpaceSplit(s) == SplitRec(s, <<>>, <<>>, FALSE)

\* a join that leaves out the separator
RECURSIVE JoinTight(_)
JoinTight(ws) == IF ws = <<>> THEN <<>> ELSE Head(ws) \o JoinTight(Tail(ws))

\* " ".join(ws)
RECURSIVE Join(_)
Join(ws) ==
    IF ws = <<>> THEN <<>>
    ELSE IF Len(ws) = 1 THEN ws[1]
    ELSE ws[1] \o <<" ">> \o Join(Tail(ws))

\* sum(len(x) for x in buf) + max(0, len(buf) - 1)
RECURSIVE SumLen(_)
SumLen(ws) == IF ws = <<>> THEN 0 ELSE Len(Head(ws)) + SumLen(Tail(ws))

BufLen(b) == SumLen(b) + Max(0, Len(b) - 1)

\* ------------------------------------------------------------- _clean_text
\* line 17: NOISE_CHARS; the non-ASCII members are named
NOISE_CHARS == {"?", "FW_QUESTION", "L_CORNER", "R_CORNER", ".", "-",
                "FW_EXCLAMATION", "!", "(", "FW_LPAREN", ")", "FW_RPAREN",
                "ELLIPSIS", "MIDDLE_DOT"}

\* the characters tried: a base letter, a combining acute accent, the
\* precomposed letter, ASCII and compatibility noise, a full-width letter,
\* the ideographic space
CleanAlphabet == {"e", "ACUTE", "E_ACUTE", ".", "ELLIPSIS", "FW_EXCLAMATION",
                  "FW_A", "IDEO_SPACE"}

\* NFKC, first half: the full compatibility decomposition of one character
Decompose(c) ==
    CASE c = "E_ACUTE" -> <<"e", "ACUTE">>
      [] c = "ELLIPSIS" -> <<".", ".", ".">>
      [] c = "FW_EXCLAMATION" -> <<"!">>
      [] c = "FW_QUESTION" -> <<"?">>
      [] c = "FW_LPAREN" -> <<"(">>
      [] c = "FW_RPAREN" -> <<")">>
      [] c = "FW_A" -> <<"A">>
      [] c = "IDEO_SPACE" -> <<" ">>
      [] OTHER -> <<c>>

RECURSIVE DecomposeAll(_)
DecomposeAll(s) ==
    IF s = <<>> THEN <<>> ELSE Decompose(Head(s)) \o DecomposeAll(Tail(s))

\* NFKC, second half: canonical composition of a base letter with the
\* combining mark that directly follows it
RECURSIVE ComposeAll(_)
ComposeAll(s) ==
    IF Len(s) < 2 THEN s
    ELSE IF s[1] = "e" /\ s[2] = "ACUTE"
         THEN <<"E_ACUTE">> \o ComposeAll(SubSeq(s, 3, Len(s)))
         ELSE <<s[1]>> \o ComposeAll(Tail(s))

\* lines 35-36: unicodedata.normalize("NFKC", s)
Nfkc(s) == ComposeAll(DecomposeAll(s))

\* lines 42-44: str.translate with every NOISE_CHARS character deleted
DeleteNoise(s) == SelectSeq(s, LAMBDA c : c \notin NOISE_CHARS)

\* lines 39-45
CleanText(s) == DeleteNoise(Nfkc(s))

\* ----------------------------------------------------- analyzer, morphemes
\* line 14: DEFAULT_KEEP_POS (noun, adjective, verb, pronoun, adnominal)
DEFAULT_KEEP_POS == {"meishi", "keiyoushi", "doushi", "daimeishi", "rentaishi"}

\* line 26
NG_SURFACE == {}

\* line 8: the module's default tokenizer
G_TOK == "sudachi"

\* line 9: the module's default split mode
G_SPLIT_MODE == "C"

\* a morpheme as the analyzer hands it out: its three accessors, and which of
\* them (if any) raises when called
Morph(sf, df, p, b) == [surface |-> sf, dict |-> df, pos |-> p, bad |-> b]

Morphemes ==
    { Morph("neko", "neko", "meishi", "none"),
      Morph("tabeta", "taberu", "doushi", "none"),
      Morph("wa", "wa", "joshi", "none"),
      Morph("", "", "meishi", "none"),
      Morph("neko", "neko", "meishi", "part_of_speech"),
      Morph("tabeta", "taberu", "doushi", "dictionary_form"),
      Morph("tabeta", "taberu", "doushi", "surface"),
      Morph("wa", "wa", "joshi", "surface") }

\* a normalize_baseform that always takes the surface form
NormalizeSurfaceOnly(m) == m.surface

\* lines 29-32: normalize_baseform, the value it returns
NormalizeBaseform(m) ==
    IF m.pos \in {"doushi", "keiyoushi"} THEN m.dict ELSE m.surface

\* lines 29-32: normalize_baseform, whether an accessor it calls raises
NormalizeRaises(m) ==
    \/ m.bad = "part_of_speech"
    \/ IF m.pos \in {"doushi", "keiyoushi"}
       THEN m.bad = "dictionary_form"
       ELSE m.bad = "surface"

\* lines 153-167: the loop body for one morpheme; what it appends to toks
\* and whether it raises
LoopBody(m, kp, ng) ==
    IF m.bad = "part_of_speech" THEN [raised |-> TRUE, out |-> <<>>]
    ELSE IF kp # {} /\ m.pos \notin kp THEN [raised |-> FALSE, out |-> <<>>]
    ELSE IF NormalizeRaises(m) THEN [raised |-> TRUE, out |-> <<>>]
    ELSE LET surf == NormalizeBaseform(m)
         IN IF ng # {} /\ (surf = "" \/ surf \in ng)
            THEN [raised |-> FALSE, out |-> <<>>]
            ELSE IF surf # "" THEN [raised |-> FALSE, out |-> <<surf>>]
            ELSE [raised |-> FALSE, out |-> <<>>]

\* lines 127-132: keep_pos normalised to a set
ResolveKeepPos(a) ==
    IF a.kind = "bool" THEN (IF a.val THEN DEFAULT_KEEP_POS ELSE {})
    ELSE IF a.kind = "str" THEN {a.val}
    ELSE a.val

\* lines 135-140: ng_words normalised to a set
ResolveNgWords(a) ==
    IF a.kind = "bool" THEN (IF ~a.val THEN {} ELSE NG_SURFACE)
    ELSE IF a.kind = "str" THEN {a.val}
    ELSE a.val

\* lines 119-123: an argument left None takes the module default
OrDefault(arg, default) == IF arg = "None" THEN default ELSE arg

\* a check that also rejects max_chars_per_chunk > hard_max_chars
UninitialisedOrLimits(t, sm) ==
    t = "None" \/ sm = "None" \/ max_chars > hard_max_chars

\* line 123: the only check base_tokenize makes before processing
Uninitialised(t, sm) == t = "None" \/ sm = "None"

\* a handler that starts the token list afresh
AfterExceptReset(ts) == <<>>

\* lines 168-170: "except Exception: continue" keeps toks as the try block
\* left it
AfterExcept(ts) == ts

\* what the callers pass for tok, split_mode, keep_pos and ng_words
TokArgs == {"None", "injected"}

SplitModeArgs == {"None", "A"}

KeepPosArgs ==
    { [kind |-> "bool", val |-> TRUE],
      [kind |-> "bool", val |-> FALSE],
      [kind |-> "str", val |-> "doushi"] }

NgWordsArgs ==
    { [kind |-> "bool", val |-> FALSE],
      [kind |-> "str", val |-> "neko"],
      [kind |-> "seq", val |-> {"taberu", "wa"}] }

\* the generator runs when its consumer asks for the next chunk: at once
\* under list(...), after the loop body under base_tokenize
Ready == caller = "direct" \/ (tpc = "iter" /\ consumed = Len(chunks))

Yield(c, by) ==
    /\ chunks' = Append(chunks, c)
    /\ how' = Append(how, by)

NoYield == UNCHANGED <<chunks, how>>

\* ------------------------------------------------------ _iter_space_chunks
\* the soft-limit test without its "and buf"
SoftFlushAnyBuf(cl, addLen, b, mx) == cl + addLen > mx

\* line 68: the soft-limit test
SoftFlush(cl, addLen, b, mx) == cl + addLen > mx /\ b # <<>>

\* line 77: the force-split loop condition
WordTooLong(b, hard) == Len(b[Len(b)]) > hard

\* a safety valve that forgets the separators when it adds up the lengths
RECURSIVE ValveOutNoSeparator(_, _, _, _)
ValveOutNoSeparator(b, i, total, hard) ==
    IF i > Len(b) THEN <<>>
    ELSE LET add == Len(b[i])
         IN IF total + add > hard THEN <<>>
            ELSE <<b[i]>> \o ValveOutNoSeparator(b, i + 1, total + add, hard)

\* lines 87-94: the words the safety valve emits
RECURSIVE ValveOut(_, _, _, _)
ValveOut(b, i, total, hard) ==
    IF i > Len(b) THEN <<>>
    ELSE LET add == Len(b[i]) + (IF i > 1 THEN 1 ELSE 0)
         IN IF total + add > hard THEN <<>>
            ELSE <<b[i]>> \o ValveOut(b, i + 1, total + add, hard)

\* lines 58-62
Begin ==
    /\ pc = "start"
    /\ IF text = <<>>
       THEN /\ pc' = "done"
            /\ UNCHANGED parts
       ELSE /\ parts' = SpaceSplit(Strip(text))
            /\ pc' = "loop"
    /\ UNCHANGED <<text, idx, buf, cur_len, chunks, how>>
    /\ UNCHANGED <<limitVars, argVars, tokVars, cleanVars>>

\* lines 64-74: take the next word; flush the buffer first when it would
\* pass the soft limit
TakeWord ==
    /\ pc = "loop"
    /\ Ready
    /\ idx <= Len(parts)
    /\ idx' = idx + 1
    /\ LET p == parts[idx]
           add_len == (IF buf # <<>> THEN 1 ELSE 0) + Len(p)
       IN IF p = <<>>
          THEN /\ pc' = "loop"
               /\ NoYield
               /\ UNCHANGED <<buf, cur_len>>
          ELSE /\ pc' = "split"
               /\ IF SoftFlush(cur_len, add_len, buf, max_chars)
                  THEN /\ Yield(Join(buf), "soft")
                       /\ buf' = <<p>>
                       /\ cur_len' = Len(p)
                  ELSE /\ NoYield
                       /\ buf' = Append(buf, p)
                       /\ cur_len' = cur_len + add_len
    /\ UNCHANGED <<text, parts>>
    /\ UNCHANGED <<limitVars, argVars, tokVars, cleanVars>>

\* lines 77-83: one pass of the force-split loop
ForceSplit ==
    /\ pc = "split"
    /\ Ready
    /\ Len(chunks) < MaxChunks
    /\ WordTooLong(buf, hard_max_chars)
    /\ LET long_piece == buf[Len(buf)]
           popped == SubSeq(buf, 1, Len(buf) - 1)
           rest == SliceFrom(long_piece, hard_max_chars)
           nbuf == IF rest # <<>> THEN Append(popped, rest) ELSE popped
       IN /\ Yield(SliceTo(long_piece, hard_max_chars), "force")
          /\ buf' = nbuf
          /\ cur_len' = BufLen(nbuf)
    /\ UNCHANGED <<text, parts, idx, pc>>
    /\ UNCHANGED <<limitVars, argVars, tokVars, cleanVars>>

\* lines 86-98: the loop condition is false; the buffer fail-safe
SafetyValve ==
    /\ pc = "split"
    /\ Ready
    /\ ~WordTooLong(buf, hard_max_chars)
    /\ pc' = "loop"
    /\ LET out == ValveOut(buf, 1, 0, hard_max_chars)
       IN IF cur_len > hard_max_chars /\ out # <<>>
          THEN /\ Yield(Join(out), "valve")
               /\ buf' = SubSeq(buf, Len(out) + 1, Len(buf))
               /\ cur_len' = BufLen(buf')
          ELSE /\ NoYield
               /\ UNCHANGED <<buf, cur_len>>
    /\ UNCHANGED <<text, parts, idx>>
    /\ UNCHANGED <<limitVars, argVars, tokVars, cleanVars>>

\* lines 100-101
FinalFlush ==
    /\ pc = "loop"
    /\ Ready
    /\ idx > Len(parts)
    /\ pc' = "done"
    /\ IF buf # <<>> THEN Yield(Join(buf), "final") ELSE NoYield
    /\ UNCHANGED <<text, parts, idx, buf, cur_len>>
    /\ UNCHANGED <<limitVars, argVars, tokVars, cleanVars>>

\* ------------------------------------------------------------ base_tokenize
\* the chunk the for loop holds, and its index
CurIndex == consumed + 1
CurChunk == chunks[CurIndex]

Tagged(ts, k, i) == [j \in 1..Len(ts) |-> [tok |-> ts[j], chunk |-> k, at |-> i]]

\* the filter as a predicate: the candidate is the base form of a verb or an
\* adjective and the surface form of anything else; it is kept when its tag
\* is allowed, it is not empty and it is no NG word
Candidate(m) == IF m.pos \in {"doushi", "keiyoushi"} THEN m.dict ELSE m.surface

Accepts(m, kp, ng) ==
    /\ kp = {} \/ m.pos \in kp
    /\ Candidate(m) # ""
    /\ ng = {} \/ Candidate(m) \notin ng

\* lines 119-140: resolve tok and split_mode, raise when either is missing,
\* normalise keep_pos and ng_words
Resolve ==
    /\ tpc = "call"
    /\ \E tok_arg \in TokArgs, split_arg \in SplitModeArgs,
          keep_pos_arg \in KeepPosArgs, ng_words_arg \in NgWordsArgs :
         IF Uninitialised(OrDefault(tok_arg, G_TOK),
                          OrDefault(split_arg, G_SPLIT_MODE))
         THEN /\ tpc' = "raised"
              /\ UNCHANGED <<keep, ngw>>
         ELSE /\ tpc' = "clean"
              /\ keep' = ResolveKeepPos(keep_pos_arg)
              /\ ngw' = ResolveNgWords(ng_words_arg)
    /\ UNCHANGED <<toks, consumed, mcount, failed, expect, expectAll>>
    /\ UNCHANGED <<limitVars, genVars, argVars, cleanVars>>

\* lines 142-147: clean the text and call the generator on it
CleanAndIterate ==
    /\ tpc = "clean"
    /\ tpc' = "iter"
    /\ toks' = <<>>
    /\ text' = CleanText(raw)
    /\ pc' = "start"
    /\ UNCHANGED <<parts, idx, buf, cur_len, chunks, how>>
    /\ UNCHANGED <<keep, ngw, consumed, mcount, failed, expect, expectAll>>
    /\ UNCHANGED <<limitVars, argVars, cleanVars>>

\* lines 148-152: skip an empty chunk; otherwise call tok.tokenize, which
\* returns the morphemes or raises
StartChunk ==
    /\ tpc = "iter"
    /\ consumed < Len(chunks)
    /\ IF CurChunk = <<>>
       THEN /\ consumed' = CurIndex
            /\ UNCHANGED <<tpc, toks, failed>>
       ELSE \E tokenizeRaises \in BOOLEAN :
               IF tokenizeRaises
               THEN /\ toks' = AfterExcept(toks)
                    /\ failed' = failed \cup {CurIndex}
                    /\ consumed' = CurIndex
                    /\ UNCHANGED tpc
               ELSE /\ tpc' = "morphemes"
                    /\ UNCHANGED <<toks, failed, consumed>>
    /\ UNCHANGED <<keep, ngw, mcount, expect, expectAll>>
    /\ UNCHANGED <<limitVars, genVars, argVars, cleanVars>>

\* lines 152-170: the loop body for the next morpheme of the chunk
NextMorpheme ==
    /\ tpc = "morphemes"
    /\ mcount < MaxMorphemes
    /\ \E m \in Morphemes :
         LET r == LoopBody(m, keep, ngw)
         IN IF r.raised
            THEN /\ toks' = AfterExcept(toks)
                 /\ failed' = failed \cup {CurIndex}
                 /\ consumed' = CurIndex
                 /\ tpc' = "iter"
                 /\ expect' = <<>>
                 /\ UNCHANGED mcount
            ELSE /\ toks' = toks \o Tagged(r.out, CurIndex, mcount + 1)
                 /\ mcount' = mcount + 1
                 /\ expect' = IF Accepts(m, keep, ngw)
                              THEN expect \o Tagged(<<Candidate(m)>>, CurIndex, mcount + 1)
                              ELSE expect
                 /\ UNCHANGED <<failed, consumed, tpc>>
    /\ UNCHANGED <<keep, ngw, expectAll>>
    /\ UNCHANGED <<limitVars, genVars, argVars, cleanVars>>

\* lines 152, 168-170: the morpheme iterator itself raises
IterRaises ==
    /\ tpc = "morphemes"
    /\ toks' = AfterExcept(toks)
    /\ failed' = failed \cup {CurIndex}
    /\ consumed' = CurIndex
    /\ tpc' = "iter"
    /\ expect' = <<>>
    /\ UNCHANGED <<keep, ngw, mcount, expectAll>>
    /\ UNCHANGED <<limitVars, genVars, argVars, cleanVars>>

\* line 152: the morphemes of the chunk are exhausted
EndChunk ==
    /\ tpc = "morphemes"
    /\ consumed' = CurIndex
    /\ tpc' = "iter"
    /\ expectAll' = expectAll \o expect
    /\ expect' = <<>>
    /\ UNCHANGED <<keep, ngw, toks, mcount, failed>>
    /\ UNCHANGED <<limitVars, genVars, argVars, cleanVars>>

\* line 172: the generator is exhausted
Return ==
    /\ tpc = "iter"
    /\ pc = "done"
    /\ consumed = Len(chunks)
    /\ tpc' = "returned"
    /\ UNCHANGED <<keep, ngw, toks, consumed, mcount, failed, expect, expectAll>>
    /\ UNCHANGED <<limitVars, genVars, argVars, cleanVars>>

\* ------------------------------------------------------ _clean_text, twice
CleanOnce ==
    /\ cpc = 0
    /\ once' = CleanText(x)
    /\ cpc' = 1
    /\ UNCHANGED <<x, twice>>
    /\ UNCHANGED <<limitVars, genVars, argVars, tokVars>>

CleanAgain ==
    /\ cpc = 1
    /\ twice' = CleanText(once)
    /\ cpc' = 2
    /\ UNCHANGED <<x, once>>
    /\ UNCHANGED <<limitVars, genVars, argVars, tokVars>>

\* ---------------------------------------------------------- specifications
GenIdle ==
    /\ parts = <<>>
    /\ idx = 1
    /\ buf = <<>>
    /\ cur_len = 0
    /\ chunks = <<>>
    /\ how = <<>>

TokIdle ==
    /\ keep = {}
    /\ ngw = {}
    /\ toks = <<>>
    /\ consumed = 0
    /\ mcount = 0
    /\ failed = {}
    /\ expect = <<>>
    /\ expectAll = <<>>

NoCall ==
    /\ raw = <<>>
    /\ tpc = "none"
    /\ TokIdle

CleanIdle ==
    /\ x = <<>>
    /\ once = <<>>
    /\ twice = <<>>

\* list(_iter_space_chunks(text, max_chars, hard_max_chars))
InitChunks ==
    /\ caller = "direct"
    /\ text \in Texts(Alphabet, MaxLen)
    /\ max_chars \in 0..MaxSoft
    /\ hard_max_chars \in 0..MaxHard
    /\ pc = "start"
    /\ GenIdle
    /\ NoCall
    /\ CleanIdle
    /\ cpc = 0

NextChunks ==
    \/ Begin
    \/ TakeWord
    \/ ForceSplit
    \/ SafetyValve
    \/ FinalFlush

SpecChunks == InitChunks /\ [][NextChunks]_vars

\* base_tokenize(raw, keep_pos, ng_words, max_chars, hard_max_chars, tok,
\* split_mode); the last four arguments are chosen where they are read
InitTokenize ==
    /\ caller = "base_tokenize"
    /\ raw \in Texts({"a", " ", "."}, MaxTokLen)
    /\ max_chars \in 1..MaxTokLimit
    /\ hard_max_chars \in 1..MaxTokLimit
    /\ tpc = "call"
    /\ TokIdle
    /\ text = <<>>
    /\ pc = "idle"
    /\ GenIdle
    /\ CleanIdle
    /\ cpc = 0

NextTokenize ==
    \/ Resolve
    \/ CleanAndIterate
    \/ Begin
    \/ TakeWord
    \/ ForceSplit
    \/ SafetyValve
    \/ FinalFlush
    \/ StartChunk
    \/ NextMorpheme
    \/ IterRaises
    \/ EndChunk
    \/ Return

SpecTokenize == InitTokenize /\ [][NextTokenize]_vars

\* _clean_text(_clean_text(x))
InitClean ==
    /\ caller = "direct"
    /\ x \in Texts(CleanAlphabet, MaxCleanLen)
    /\ once = <<>>
    /\ twice = <<>>
    /\ cpc = 0
    /\ text = <<>>
    /\ max_chars = 0
    /\ hard_max_chars = 0
    /\ pc = "idle"
    /\ GenIdle
    /\ NoCall

NextClean ==
    \/ CleanOnce
    \/ CleanAgain

SpecClean == InitClean /\ [][NextClean]_vars

\* --------------------------------------------- reference text operations
\* the whitespace-collapsed text: no leading or trailing whitespace, every
\* whitespace run replaced by one space
RECURSIVE CollapseRec(_, _)
CollapseRec(s, atGap) ==
    IF s = <<>> THEN <<>>
    ELSE IF IsWs(Head(s))
         THEN IF atGap \/ \A i \in 1..Len(s) : IsWs(s[i])
              THEN CollapseRec(Tail(s), atGap)
              ELSE <<" ">> \o CollapseRec(Tail(s), TRUE)
         ELSE <<Head(s)>> \o CollapseRec(Tail(s), FALSE)

CollapseWs(s) == CollapseRec(s, TRUE)

\* s with a space put after every h consecutive non-space characters that
\* are followed by another non-space character
RECURSIVE BreakRec(_, _, _)
BreakRec(s, run, h) ==
    IF s = <<>> THEN <<>>
    ELSE IF Head(s) = " " THEN <<" ">> \o BreakRec(Tail(s), 0, h)
    ELSE IF run = h THEN <<" ", Head(s)>> \o BreakRec(Tail(s), 1, h)
    ELSE <<Head(s)>> \o BreakRec(Tail(s), run + 1, h)

BreakLong(s, h) == BreakRec(s, 0, h)

\* chunk.split(" "): the pieces between single spaces
RECURSIVE PiecesRec(_, _)
PiecesRec(s, cur) ==
    IF s = <<>> THEN <<cur>>
    ELSE IF Head(s) = " " THEN <<cur>> \o PiecesRec(Tail(s), <<>>)
    ELSE PiecesRec(Tail(s), Append(cur, Head(s)))

PiecesOf(c) == PiecesRec(c, <<>>)

RECURSIVE AllPieces(_)
AllPieces(cs) ==
    IF cs = <<>> THEN <<>> ELSE PiecesOf(Head(cs)) \o AllPieces(Tail(cs))

\* the words of a text: its maximal runs of non-whitespace characters
WordsOf(s) == IF CollapseWs(s) = <<>> THEN <<>> ELSE PiecesOf(CollapseWs(s))

\* the consecutive slices of length h of a word, the last one shorter
RECURSIVE Slices(_, _)
Slices(w, h) ==
    IF Len(w) <= h THEN <<w>>
    ELSE <<SubSeq(w, 1, h)>> \o Slices(SubSeq(w, h + 1, Len(w)), h)

RECURSIVE FlatSlices(_, _)
FlatSlices(ws, h) ==
    IF ws = <<>> THEN <<>> ELSE Slices(Head(ws), h) \o FlatSlices(Tail(ws), h)

\* the chunks written one after the other with a single space between them
RECURSIVE SpaceJoined(_)
SpaceJoined(cs) ==
    IF cs = <<>> THEN <<>>
    ELSE IF Len(cs) = 1 THEN cs[1]
    ELSE cs[1] \o <<" ">> \o SpaceJoined(Tail(cs))

Range(f) == {f[i] : i \in DOMAIN f}

LimitsOrdered == 1 <= max_chars /\ max_chars <= hard_max_chars

HasLongWord ==
    \E i \in 1..Len(WordsOf(text)) : Len(WordsOf(text)[i]) > hard_max_chars

\* ------------------------------------------------------------------ claims
\* C1: for every text, every max_chars and every hard_max_chars >= 1 (also
\* when max_chars > hard_max_chars), every chunk yielded, by any of the four
\* yield statements, is at most hard_max_chars long.
ChunksWithinHardMax ==
    hard_max_chars >= 1 =>
        \A i \in 1..Len(chunks) : Len(chunks[i]) <= hard_max_chars

\* a finished run with max_chars > hard_max_chars in which the safety valve
\* and the force-split both yielded
ValveAndForceSplitYielded ==
    /\ pc = "done"
    /\ hard_max_chars >= 1
    /\ max_chars > hard_max_chars
    /\ {"valve", "force", "final"} \subseteq Range(how)

\* C2 as stated: for 1 <= max_chars <= hard_max_chars, the chunks joined by
\* single spaces are exactly the whitespace-collapsed input, for all texts.
JoinedChunksAreCollapsedText ==
    (pc = "done" /\ LimitsOrdered) => SpaceJoined(chunks) = CollapseWs(text)

\* C2 amended: for 1 <= max_chars <= hard_max_chars, the chunks joined by
\* single spaces are the whitespace-collapsed input with one space inserted
\* after every hard_max_chars characters of a longer word; so they are the
\* whitespace-collapsed input when no word is longer than hard_max_chars.
JoinedChunksAreBrokenCollapsedText ==
    (pc = "done" /\ LimitsOrdered) =>
        /\ SpaceJoined(chunks) = BreakLong(CollapseWs(text), hard_max_chars)
        /\ ~HasLongWord => SpaceJoined(chunks) = CollapseWs(text)

\* a finished run over a text with whitespace runs to collapse, several
\* chunks, and a word longer than hard_max_chars
JoinedWithLongWord ==
    /\ pc = "done"
    /\ LimitsOrdered
    /\ HasLongWord
    /\ Len(WordsOf(text)) >= 2
    /\ CollapseWs(text) # text

\* C7: a single whitespace-free word of length L >= 1, with
\* 1 <= max_chars <= hard_max_chars, yields exactly ceil(L / hard_max_chars)
\* chunks: its consecutive slices of length hard_max_chars, the last one of
\* length 1..hard_max_chars.
SingleWordSliced ==
    (/\ pc = "done"
     /\ LimitsOrdered
     /\ text # <<>>
     /\ \A i \in 1..Len(text) : ~IsWs(text[i])) =>
        LET L == Len(text)
            h == hard_max_chars
            n == (L + h - 1) \div h
        IN /\ Len(chunks) = n
           /\ \A i \in 1..n :
                chunks[i] = SubSeq(text, (i - 1) * h + 1, Min(i * h, L))

\* a finished run over one word of hard_max_chars + 1 characters
SingleWordOneOver ==
    /\ pc = "done"
    /\ LimitsOrdered
    /\ hard_max_chars >= 2
    /\ Len(text) = hard_max_chars + 1
    /\ \A i \in 1..Len(text) : ~IsWs(text[i])
    /\ Len(chunks) = 2

\* C8: for 1 <= max_chars <= hard_max_chars, the space-separated pieces of
\* the chunks, in emission order, are the input's words in their order, a
\* word longer than hard_max_chars replaced by its consecutive slices; every
\* other word is whole inside one chunk; no chunk and no piece is empty.
PiecesAreWordsInOrder ==
    LimitsOrdered =>
        LET pieces == AllPieces(chunks)
        IN /\ \A i \in 1..Len(chunks) : chunks[i] # <<>>
           /\ \A i \in 1..Len(pieces) : pieces[i] # <<>>
           /\ pc = "done" =>
                pieces = FlatSlices(WordsOf(text), hard_max_chars)

\* a finished run with a chunk of several words, a word split across chunks
\* and two different words
SeveralWordsOneSplit ==
    /\ pc = "done"
    /\ LimitsOrdered
    /\ HasLongWord
    /\ \E i \in 1..Len(chunks) : Len(PiecesOf(chunks[i])) >= 2
    /\ \E i, j \in 1..Len(WordsOf(text)) : WordsOf(text)[i] # WordsOf(text)[j]

\* the tokens of toks that came from chunks satisfying P
TokensFrom(P(_)) == SelectSeq(toks, LAMBDA t : P(t.chunk))

\* C3: a chunk whose analysis raises (in tok.tokenize, in the iteration or in
\* a morpheme accessor) contributes no token at all to the result, never a
\* prefix of its tokens.
FailedChunkContributesNothing ==
    \A j \in 1..Len(toks) : toks[j].chunk \notin failed

\* C4: whatever chunks raise, base_tokenize goes on to every later chunk and
\* returns; its result holds every token the filter keeps of every chunk
\* that did not raise, none removed or merged, in chunk order and, within a
\* chunk, in analyzer order.
NonFailingChunksAllKept ==
    /\ tpc \in {"iter", "morphemes", "returned"} =>
         /\ failed \subseteq 1..consumed
         /\ TokensFrom(LAMBDA k : k <= consumed /\ k \notin failed) = expectAll
         /\ \A i, j \in 1..Len(toks) :
              i < j => toks[i].chunk <= toks[j].chunk /\ toks[i].at < toks[j].at
    /\ tpc = "returned" => pc = "done" /\ consumed = Len(chunks)

\* a returned call over three chunks, the second of which raised, with tokens
\* kept from the first and from the third
MiddleChunkFailed ==
    /\ tpc = "returned"
    /\ Len(chunks) = 3
    /\ failed = {2}
    /\ Len(toks) = 2
    /\ toks[1].chunk = 1
    /\ toks[2].chunk = 3
    /\ toks[1].tok = toks[2].tok

FilterKeepsExactlyAccepted ==
    tpc = "morphemes" => TokensFrom(LAMBDA k : k = CurIndex) = expect

\* the first chunk gave a rejected morpheme and then a verb, kept in its base
\* form, under an allow-list and NG words
VerbKeptAfterReject ==
    /\ tpc = "morphemes"
    /\ consumed = 0
    /\ keep # {}
    /\ ngw # {}
    /\ mcount = 2
    /\ expect = <<[tok |-> "taberu", chunk |-> 1, at |-> 2]>>

\* C9: _clean_text is idempotent: cleaning a cleaned text changes nothing.
CleanTextIdempotent == cpc = 2 => twice = once

\* C10: with max_chars <= hard_max_chars the generator terminates, because
\* every pass of the force-split loop strictly shortens the last buffered
\* word.
ForceSplitShortensRemainder ==
    [][(/\ max_chars <= hard_max_chars
        /\ pc = "split" /\ pc' = "split"
        /\ Len(chunks') = Len(chunks) + 1)
       => (buf' # <<>> => Len(buf'[Len(buf')]) < Len(buf[Len(buf)]))]_vars

====
